---- MODULE Spec2Model ----
(***************************************************************************)
(* mosaic-id: the state-gated menu engine of src/src/main.rs.              *)
(*                                                                         *)
(* One process run is: main loads the configuration document into Data,    *)
(* builds Params (Data + an in-memory secret key, initially absent), and   *)
(* run_main_menu loops: derive the option list, read one key, execute the  *)
(* chosen option, stop when the handler returns true or an error.          *)
(* Several runs in a row share only the document on disk.                  *)
(***************************************************************************)
EXTENDS Integers, Sequences, FiniteSets, TLC

(* ------------------------------ bounds --------------------------------- *)
MaxKeys == 2        \* distinct keypairs SecretKey::generate() can return
MaxPasswords == 2   \* distinct passwords the user can type
MaxServers == 1     \* largest bootstrap server list found in a document
MaxCerts == 1       \* longest key schedule found in a document
MaxRuns == 2        \* process runs in a row

(* --------------------------- Option<T> --------------------------------- *)
None == <<>>
Some(x) == <<x>>
is_some(o) == o # <<>>
unwrap(o) == o[1]

(* ------------------------------ values --------------------------------- *)
SecretKeys == 1..MaxKeys
Passwords == 1..MaxPasswords
UserProfile == "UserProfile"
KeyCertificate == "KeyCertificate"

\* mosaic_core::EncryptedSecretKey: the key under a password
from_secret_key(secret_key, password) == [key |-> secret_key, pw |-> password]

\* mosaic_core::EncryptedSecretKey::to_secret_key: Ok(key) or Err (None)
to_secret_key(e, password) == IF e.pw = password THEN Some(e.key) ELSE None

\* mosaic_core::UserBootstrap, known to this program by its length only
UserBootstrap_new == 0

Data_default ==
  [encrypted_master_key |-> None, bootstrap |-> None,
   profile |-> None, key_schedule |-> None]

EncryptedSecretKeys == [key : SecretKeys, pw : Passwords]
KeySchedules == {[i \in 1..n |-> KeyCertificate] : n \in 0..MaxCerts}

OptionOf(S) == {None} \cup {Some(x) : x \in S}

DataValues ==
  [encrypted_master_key : OptionOf(EncryptedSecretKeys),
   bootstrap : OptionOf(0..MaxServers),
   profile : OptionOf({UserProfile}),
   key_schedule : OptionOf(KeySchedules)]

ParamsValues == [data : DataValues, secret_key : OptionOf(SecretKeys)]

(* ----------------------- the JSON document ----------------------------- *)
\* A document is its four top-level fields, each a sequence of tokens.
\* <<>> is a field that the document omits.
JsonNull == <<"null">>
JsonOmitted == <<>>
JsonGarbage == <<"{", "}">>

ParseInt(s, S) == CHOOSE n \in S : ToString(n) = s

\* Faulty variant: the master key left out of the written document
ser_encrypted_master_key_skipped(o) == JsonNull

\* serde_json::to_string of each field of Data (derive(Serialize))
ser_encrypted_master_key(o) ==
  IF is_some(o)
    THEN <<"emk", ToString(unwrap(o).key), ToString(unwrap(o).pw)>>
    ELSE JsonNull

ser_bootstrap(o) ==
  IF is_some(o) THEN <<"bootstrap", ToString(unwrap(o))>> ELSE JsonNull

\* UserProfile is a unit struct: serde writes it as null, as it writes None
ser_profile(o) == IF is_some(o) THEN JsonNull ELSE JsonNull

\* KeyCertificate is a unit struct: a Vec of them is an array of nulls
ser_key_schedule(o) ==
  IF is_some(o)
    THEN <<"[">> \o [i \in 1..Len(unwrap(o)) |-> "null"] \o <<"]">>
    ELSE JsonNull

to_string(data) ==
  [encrypted_master_key |-> ser_encrypted_master_key(data.encrypted_master_key),
   bootstrap |-> ser_bootstrap(data.bootstrap),
   profile |-> ser_profile(data.profile),
   key_schedule |-> ser_key_schedule(data.key_schedule)]

\* serde_json::from_slice of each field: [ok, val]; null or omitted is None
de_encrypted_master_key(t) ==
  IF t = JsonNull \/ t = JsonOmitted THEN [ok |-> TRUE, val |-> None]
  ELSE IF Len(t) = 3 /\ t[1] = "emk"
         /\ t[2] \in {ToString(k) : k \in SecretKeys}
         /\ t[3] \in {ToString(p) : p \in Passwords}
    THEN [ok |-> TRUE,
          val |-> Some([key |-> ParseInt(t[2], SecretKeys),
                        pw |-> ParseInt(t[3], Passwords)])]
    ELSE [ok |-> FALSE, val |-> None]

de_bootstrap(t) ==
  IF t = JsonNull \/ t = JsonOmitted THEN [ok |-> TRUE, val |-> None]
  ELSE IF Len(t) = 2 /\ t[1] = "bootstrap"
         /\ t[2] \in {ToString(n) : n \in 0..MaxServers}
    THEN [ok |-> TRUE, val |-> Some(ParseInt(t[2], 0..MaxServers))]
    ELSE [ok |-> FALSE, val |-> None]

\* Option<UserProfile>: null is None; anything else must decode as the unit
\* struct, which only null does, so it is an error
de_profile(t) ==
  IF t = JsonNull \/ t = JsonOmitted THEN [ok |-> TRUE, val |-> None]
  ELSE [ok |-> FALSE, val |-> None]

de_key_schedule(t) ==
  IF t = JsonNull \/ t = JsonOmitted THEN [ok |-> TRUE, val |-> None]
  ELSE IF Len(t) >= 2 /\ t[1] = "[" /\ t[Len(t)] = "]"
         /\ \A i \in 2..(Len(t) - 1) : t[i] = "null"
    THEN [ok |-> TRUE, val |-> Some([i \in 1..(Len(t) - 2) |-> KeyCertificate])]
    ELSE [ok |-> FALSE, val |-> None]

from_slice(doc) ==
  LET e == de_encrypted_master_key(doc.encrypted_master_key)
      b == de_bootstrap(doc.bootstrap)
      p == de_profile(doc.profile)
      k == de_key_schedule(doc.key_schedule)
  IN IF e.ok /\ b.ok /\ p.ok /\ k.ok
       THEN [ok |-> TRUE,
             data |-> [encrypted_master_key |-> e.val, bootstrap |-> b.val,
                       profile |-> p.val, key_schedule |-> k.val]]
       ELSE [ok |-> FALSE, data |-> Data_default]

\* What the file can hold when the program starts
Documents ==
  [encrypted_master_key :
     {JsonNull, JsonOmitted} \cup
       {ser_encrypted_master_key(Some(e)) : e \in EncryptedSecretKeys},
   bootstrap : {JsonNull} \cup {ser_bootstrap(Some(n)) : n \in 0..MaxServers},
   profile : {JsonNull, JsonGarbage},
   key_schedule : {JsonNull} \cup {ser_key_schedule(Some(v)) : v \in KeySchedules}]

\* A file cut short by a failed write: no field decodes
Truncated ==
  [encrypted_master_key |-> <<"{">>, bootstrap |-> <<"{">>,
   profile |-> <<"{">>, key_schedule |-> <<"{">>]

\* The file: None when it does not exist
Files == {None} \cup {Some(d) : d \in Documents} \cup {Some(Truncated)}

(* ------------------------------ the menu -------------------------------- *)
\* Faulty variant: main_options_from_params with the unlock test dropped, so that
\* DecryptMaster and the artifact options are all offered with a master key
main_options_without_unlock_test(params) ==
  (IF is_some(params.data.encrypted_master_key)
     THEN (IF is_some(params.data.bootstrap)
             THEN <<"EditBootstrap">> ELSE <<"NewBootstrap">>)
          \o (IF is_some(params.data.profile)
                THEN <<"EditProfile">> ELSE <<"NewProfile">>)
          \o (IF is_some(params.data.key_schedule)
                THEN <<"EditKeySchedule">> ELSE <<"NewKeySchedule">>)
          \o <<"DecryptMaster", "DestroyMaster">>
     ELSE <<"NewMaster">>)
  \o <<"SaveAndExit", "ExitWithoutSaving">>

\* fn main_options_from_params(params: &Params) -> Vec<MenuOption>
main_options_from_params(params) ==
  (IF is_some(params.data.encrypted_master_key)
     THEN (IF is_some(params.secret_key)
             THEN (IF is_some(params.data.bootstrap)
                     THEN <<"EditBootstrap">> ELSE <<"NewBootstrap">>)
                  \o (IF is_some(params.data.profile)
                        THEN <<"EditProfile">> ELSE <<"NewProfile">>)
                  \o (IF is_some(params.data.key_schedule)
                        THEN <<"EditKeySchedule">> ELSE <<"NewKeySchedule">>)
             ELSE <<"DecryptMaster">>)
          \o <<"DestroyMaster">>
     ELSE <<"NewMaster">>)
  \o <<"SaveAndExit", "ExitWithoutSaving">>

\* The handlers of execute that only print a message
PrintOnly ==
  {"EditBootstrap", "NewProfile", "EditProfile", "NewKeySchedule", "EditKeySchedule"}

\* enum MenuOption, "Bootstrap Submenu Options"
SubmenuOptions ==
  {"AddServer", "RemoveServer", "ChangeServerPriority", "ChangeServerUsage"}

\* The submenu handlers of execute that only print a message
SubmenuPrintOnly == {"RemoveServer", "ChangeServerPriority", "ChangeServerUsage"}

\* crossterm::event::read(): an event that is no key press, a key that is no
\* decimal digit, or a digit key
NoEvent == [kind |-> "none", digit |-> 0]
DigitKey(d) == [kind |-> "digit", digit |-> d]
Events ==
  {[kind |-> "other", digit |-> 0], [kind |-> "char", digit |-> 0]}
    \cup {DigitKey(d) : d \in 0..9}

\* run_menu_once, lines 199-204: the events that select nothing from `list`;
\* of the digits that index no entry, the smallest and the largest are kept
IgnoredEvents(list) ==
  {e \in Events :
     \/ e.kind # "digit"
     \/ e.digit >= Len(list) /\ e.digit \in {Len(list), 9}}

\* The lines a user may type at the "Are you sure (type YES): " prompt
LineYES == <<"Y", "E", "S">>
Lines ==
  { <<>>, <<"N", "O">>, <<"Y", "E">>, <<"y", "e", "s">>, LineYES,
    <<"Y", "E", "S", "T", "E", "R", "D", "A", "Y">>,
    <<"Y", "E", "S", " ", "p", "l", "e", "a", "s", "e">> }

\* str::starts_with
starts_with(line, prefix) ==
  Len(line) >= Len(prefix) /\ SubSeq(line, 1, Len(prefix)) = prefix

\* stdin.lock().lines().next(): a line, end of input, or a read error
StdinReads ==
  {[kind |-> "line", line |-> l] : l \in Lines}
    \cup {[kind |-> "eof", line |-> <<>>], [kind |-> "err", line |-> <<>>]}

\* rpassword::prompt_password: Some(password), or None for an I/O error
PromptResults == OptionOf(Passwords)

(* ------------------------------ handlers -------------------------------- *)
\* Faulty variant: execute_NewMaster storing the generated key before it
\* prompts for the password
execute_NewMaster_stores_first(params, secret_key, prompt) ==
  IF ~is_some(prompt)
    THEN [params |-> [params EXCEPT !.secret_key = Some(secret_key)],
          result |-> "Err(io)"]
    ELSE [params |->
            [params EXCEPT
               !.data.encrypted_master_key =
                  Some(from_secret_key(secret_key, unwrap(prompt))),
               !.secret_key = Some(secret_key)],
          result |-> "Ok(false)"]

\* execute, MenuOption::NewMaster
execute_NewMaster(params, secret_key, prompt) ==
  IF ~is_some(prompt)
    THEN [params |-> params, result |-> "Err(io)"]
    ELSE [params |->
            [params EXCEPT
               !.data.encrypted_master_key =
                  Some(from_secret_key(secret_key, unwrap(prompt))),
               !.secret_key = Some(secret_key)],
          result |-> "Ok(false)"]

\* Faulty variant: execute_DecryptMaster storing a key before the password is checked
execute_DecryptMaster_stores_first(params, prompt) ==
  IF ~is_some(params.data.encrypted_master_key)
    THEN [params |-> params, result |-> "panic"]
  ELSE IF ~is_some(prompt)
    THEN [params |-> params, result |-> "Err(io)"]
  ELSE LET e == unwrap(params.data.encrypted_master_key)
           r == to_secret_key(e, unwrap(prompt))
       IN [params |-> [params EXCEPT !.secret_key = Some(e.key)],
           result |-> IF is_some(r) THEN "Ok(false)" ELSE "Err(decrypt)"]

\* execute, MenuOption::DecryptMaster
execute_DecryptMaster(params, prompt) ==
  IF ~is_some(params.data.encrypted_master_key)
    THEN [params |-> params, result |-> "panic"]
  ELSE IF ~is_some(prompt)
    THEN [params |-> params, result |-> "Err(io)"]
  ELSE LET r == to_secret_key(unwrap(params.data.encrypted_master_key),
                              unwrap(prompt))
       IN IF is_some(r)
            THEN [params |-> [params EXCEPT !.secret_key = r],
                  result |-> "Ok(false)"]
            ELSE [params |-> params, result |-> "Err(decrypt)"]

\* Faulty variant: execute_DestroyMaster resetting the whole Data on YES
execute_DestroyMaster_clears_artifacts(params, read) ==
  IF read.kind = "eof" THEN [params |-> params, result |-> "panic"]
  ELSE IF read.kind = "err" THEN [params |-> params, result |-> "Err(io)"]
  ELSE IF starts_with(read.line, LineYES)
    THEN [params |-> [data |-> Data_default, secret_key |-> None],
          result |-> "Ok(false)"]
    ELSE [params |-> params, result |-> "Ok(false)"]

\* Faulty variant: execute_DestroyMaster with the secret key left in memory
execute_DestroyMaster_keeps_secret_key(params, read) ==
  IF read.kind = "eof" THEN [params |-> params, result |-> "panic"]
  ELSE IF read.kind = "err" THEN [params |-> params, result |-> "Err(io)"]
  ELSE IF starts_with(read.line, LineYES)
    THEN [params |-> [params EXCEPT !.data.encrypted_master_key = None],
          result |-> "Ok(false)"]
    ELSE [params |-> params, result |-> "Ok(false)"]

\* execute, MenuOption::DestroyMaster
execute_DestroyMaster(params, read) ==
  IF read.kind = "eof" THEN [params |-> params, result |-> "panic"]
  ELSE IF read.kind = "err" THEN [params |-> params, result |-> "Err(io)"]
  ELSE IF starts_with(read.line, LineYES)
    THEN [params |->
            [params EXCEPT !.data.encrypted_master_key = None,
                           !.secret_key = None],
          result |-> "Ok(false)"]
    ELSE [params |-> params, result |-> "Ok(false)"]

\* Faulty variant: execute_NewBootstrap returning true, which ends the loop
execute_NewBootstrap_exits(params) ==
  [params |-> [params EXCEPT !.data.bootstrap = Some(UserBootstrap_new)],
   result |-> "Ok(true)"]

\* execute, MenuOption::NewBootstrap
execute_NewBootstrap(params) ==
  [params |-> [params EXCEPT !.data.bootstrap = Some(UserBootstrap_new)],
   result |-> "Ok(false)"]

\* execute, the options of PrintOnly: a message, nothing else
execute_PrintOnly(params, option) ==
  [params |-> params, result |-> "Ok(false)"]

\* execute, MenuOption::AddServer: unwraps the bootstrap, reads a line, prints
execute_AddServer(params, read) ==
  IF ~is_some(params.data.bootstrap) THEN [params |-> params, result |-> "panic"]
  ELSE IF read.kind = "eof" THEN [params |-> params, result |-> "panic"]
  ELSE IF read.kind = "err" THEN [params |-> params, result |-> "Err(io)"]
  ELSE [params |-> params, result |-> "Ok(false)"]

\* Faulty variant: execute_SaveAndExit writing only the fields that are
\* present, the others being left as the file has them
execute_SaveAndExit_merges(params, file, outcome) ==
  LET new == to_string(params.data)
      old == IF is_some(file) THEN unwrap(file) ELSE new
      Pick(o, a, b) == IF is_some(o) THEN a ELSE b
  IN IF outcome = "written"
       THEN [file |->
               Some([encrypted_master_key |->
                       Pick(params.data.encrypted_master_key,
                            new.encrypted_master_key, old.encrypted_master_key),
                     bootstrap |->
                       Pick(params.data.bootstrap, new.bootstrap, old.bootstrap),
                     profile |->
                       Pick(params.data.profile, new.profile, old.profile),
                     key_schedule |->
                       Pick(params.data.key_schedule,
                            new.key_schedule, old.key_schedule)]),
             result |-> "Ok(true)"]
     ELSE IF outcome = "failed_truncated"
       THEN [file |-> Some(Truncated), result |-> "Err(io)"]
       ELSE [file |-> file, result |-> "Err(io)"]

\* Faulty variant: execute_SaveAndExit without its early return, falling
\* through to the Ok(false) at the end of execute
execute_SaveAndExit_falls_through(params, file, outcome) ==
  IF outcome = "written"
    THEN [file |-> Some(to_string(params.data)), result |-> "Ok(false)"]
  ELSE IF outcome = "failed_truncated"
    THEN [file |-> Some(Truncated), result |-> "Err(io)"]
    ELSE [file |-> file, result |-> "Err(io)"]

\* execute, MenuOption::SaveAndExit: fs::write creates or truncates the file,
\* then writes all of the contents; it can fail before or after truncating
WriteOutcomes == {"written", "failed", "failed_truncated"}

execute_SaveAndExit(params, file, outcome) ==
  IF outcome = "written"
    THEN [file |-> Some(to_string(params.data)), result |-> "Ok(true)"]
  ELSE IF outcome = "failed_truncated"
    THEN [file |-> Some(Truncated), result |-> "Err(io)"]
    ELSE [file |-> file, result |-> "Err(io)"]

\* execute, MenuOption::ExitWithoutSaving
execute_ExitWithoutSaving(params) == [params |-> params, result |-> "Ok(true)"]

\* fn main, lines 34-47: the Params of a run, from the file
main_load(file) ==
  IF is_some(file)
    THEN LET r == from_slice(unwrap(file))
         IN [ok |-> r.ok, params |-> [data |-> r.data, secret_key |-> None]]
    ELSE [ok |-> TRUE, params |-> [data |-> Data_default, secret_key |-> None]]

(* ------------------------------- state ---------------------------------- *)
VARIABLES
  disk,      \* the configuration file: None, or Some(document)
  pc,        \* "start", "menu" (run_menu_once waits for a key), "exited", "failed"
  runs,      \* process runs started so far
  contents,  \* what main read from the file at the start of this run
  params,    \* Params: data and secret_key (the value at exit once the run ended)
  options,   \* the Vec<MenuOption> run_main_menu last derived
  last,      \* the option execute last ran in this run, its result, and the line
             \* or password typed at its prompt (pw 0: none)
  scenario,  \* history: progress along "no document, NewMaster, save, rerun, unlock"
  event,     \* the input event run_menu_once last read in this run
  reads,     \* times this run loaded the file (main, lines 34-39)
  writes     \* times this run called fs::write

vars ==
  <<disk, pc, runs, contents, params, options, last, scenario, event, reads, writes>>

NoScenario == [stage |-> 0, pw |-> 0]

\* Faulty variant: Return with the option list derived once and never again
Return_keeps_list(option, result, new_params, line, pw) ==
  /\ params' = new_params
  /\ last' = [option |-> option, result |-> result, line |-> line, pw |-> pw]
  /\ pc' = IF result = "Ok(false)" THEN "menu"
           ELSE IF result = "Ok(true)" THEN "exited" ELSE "failed"
  /\ options' = options
  /\ writes' = IF option = "SaveAndExit" THEN writes + 1 ELSE writes
  /\ UNCHANGED <<runs, contents, reads>>

\* run_main_menu / run_menu_once: what follows the return of execute
Return(option, result, new_params, line, pw) ==
  /\ params' = new_params
  /\ last' = [option |-> option, result |-> result, line |-> line, pw |-> pw]
  /\ pc' = IF result = "Ok(false)" THEN "menu"
           ELSE IF result = "Ok(true)" THEN "exited" ELSE "failed"
  /\ options' = IF result = "Ok(false)"
                  THEN main_options_from_params(new_params) ELSE options
  /\ writes' = IF option = "SaveAndExit" THEN writes + 1 ELSE writes
  /\ UNCHANGED <<runs, contents, reads>>

\* The password typed at a prompt, 0 when the prompt failed
Typed(prompt) == IF is_some(prompt) THEN unwrap(prompt) ELSE 0

\* run_menu_once: the event read is a digit key that indexes the printed list,
\* and the entry at that index is `option`
Offered(option) ==
  \E i \in 1..Len(options) :
    /\ i - 1 < 10
    /\ options[i] = option
    /\ event' = DigitKey(i - 1)

Init ==
  /\ disk \in Files
  /\ pc = "start"
  /\ runs = 0
  /\ contents = None
  /\ params = [data |-> Data_default, secret_key |-> None]
  /\ options = <<>>
  /\ last = [option |-> "none", result |-> "none", line |-> <<>>, pw |-> 0]
  /\ scenario = NoScenario
  /\ event = NoEvent
  /\ reads = 0
  /\ writes = 0

\* fn main: a run starts, reads the file once and enters the menu
Main ==
  /\ pc # "menu"
  /\ runs < MaxRuns
  /\ runs' = runs + 1
  /\ contents' = disk
  /\ LET r == main_load(disk)
     IN /\ params' = r.params
        /\ pc' = IF r.ok THEN "menu" ELSE "failed"
        /\ options' = IF r.ok THEN main_options_from_params(r.params) ELSE <<>>
  /\ last' = [option |-> "main", result |-> "none", line |-> <<>>, pw |-> 0]
  /\ scenario' = IF scenario.stage = 3 THEN [scenario EXCEPT !.stage = 4]
                 ELSE IF ~is_some(disk) THEN [stage |-> 1, pw |-> 0]
                 ELSE NoScenario
  /\ event' = NoEvent
  /\ reads' = 1
  /\ writes' = 0
  /\ UNCHANGED disk

NewMaster ==
  /\ pc = "menu"
  /\ Offered("NewMaster")
  /\ \E secret_key \in SecretKeys, prompt \in PromptResults :
       LET r == execute_NewMaster(params, secret_key, prompt)
       IN /\ Return("NewMaster", r.result, r.params, <<>>, Typed(prompt))
          /\ scenario' = IF scenario.stage = 1 /\ r.result = "Ok(false)"
                           THEN [stage |-> 2, pw |-> unwrap(prompt)]
                           ELSE NoScenario
  /\ UNCHANGED disk

DecryptMaster ==
  /\ pc = "menu"
  /\ Offered("DecryptMaster")
  /\ \E prompt \in PromptResults :
       LET r == execute_DecryptMaster(params, prompt)
       IN /\ Return("DecryptMaster", r.result, r.params, <<>>, Typed(prompt))
          /\ scenario' = IF scenario.stage = 4 /\ prompt = Some(scenario.pw)
                           THEN [scenario EXCEPT !.stage = 5]
                           ELSE NoScenario
  /\ UNCHANGED disk

DestroyMaster ==
  /\ pc = "menu"
  /\ Offered("DestroyMaster")
  /\ \E read \in StdinReads :
       LET r == execute_DestroyMaster(params, read)
       IN Return("DestroyMaster", r.result, r.params, read.line, 0)
  /\ scenario' = NoScenario
  /\ UNCHANGED disk

NewBootstrap ==
  /\ pc = "menu"
  /\ Offered("NewBootstrap")
  /\ LET r == execute_NewBootstrap(params)
     IN Return("NewBootstrap", r.result, r.params, <<>>, 0)
  /\ scenario' = NoScenario
  /\ UNCHANGED disk

NotImplemented ==
  /\ pc = "menu"
  /\ \/ \E option \in PrintOnly \cup SubmenuPrintOnly :
          /\ Offered(option)
          /\ LET r == execute_PrintOnly(params, option)
             IN Return(option, r.result, r.params, <<>>, 0)
     \/ /\ Offered("AddServer")
        /\ \E read \in StdinReads :
             LET r == execute_AddServer(params, read)
             IN Return("AddServer", r.result, r.params, read.line, 0)
  /\ scenario' = NoScenario
  /\ UNCHANGED disk

\* Faulty variant: IgnoredEvent ending the loop on a key that selects nothing
IgnoredEvent_leaves_menu ==
  /\ pc = "menu"
  /\ \E e \in IgnoredEvents(options) : event' = e
  /\ pc' = "exited"
  /\ UNCHANGED <<disk, runs, contents, params, options, last, scenario,
                 reads, writes>>

\* run_menu_once, the inner loop: an event that selects nothing is dropped
\* and the next event is awaited, the printed list being the same
IgnoredEvent ==
  /\ pc = "menu"
  /\ \E e \in IgnoredEvents(options) : event' = e
  /\ UNCHANGED <<disk, pc, runs, contents, params, options, last, scenario,
                 reads, writes>>

SaveAndExit ==
  /\ pc = "menu"
  /\ Offered("SaveAndExit")
  /\ \E outcome \in WriteOutcomes :
       LET r == execute_SaveAndExit(params, disk, outcome)
       IN /\ disk' = r.file
          /\ Return("SaveAndExit", r.result, params, <<>>, 0)
          /\ scenario' = IF scenario.stage = 2 /\ r.result = "Ok(true)"
                           THEN [scenario EXCEPT !.stage = 3]
                           ELSE NoScenario

\* Faulty variant: ExitWithoutSaving writing the document like SaveAndExit
ExitWithoutSaving_writes ==
  /\ pc = "menu"
  /\ Offered("ExitWithoutSaving")
  /\ LET r == execute_ExitWithoutSaving(params)
     IN Return("ExitWithoutSaving", r.result, r.params, <<>>, 0)
  /\ scenario' = NoScenario
  /\ disk' = Some(to_string(params.data))

ExitWithoutSaving ==
  /\ pc = "menu"
  /\ Offered("ExitWithoutSaving")
  /\ LET r == execute_ExitWithoutSaving(params)
     IN Return("ExitWithoutSaving", r.result, r.params, <<>>, 0)
  /\ scenario' = NoScenario
  /\ UNCHANGED disk

Next ==
  \/ Main
  \/ NewMaster
  \/ DecryptMaster
  \/ DestroyMaster
  \/ NewBootstrap
  \/ NotImplemented
  \/ IgnoredEvent
  \/ SaveAndExit
  \/ ExitWithoutSaving

Spec == Init /\ [][Next]_vars

\* Every Session value as the state at a menu, for the claims that are about
\* the handlers and the option list as functions of the Session
InitAny ==
  /\ params \in ParamsValues
  /\ disk \in {None, Some(to_string(params.data))}
  /\ pc = "menu"
  /\ runs = 1
  /\ contents = disk
  /\ options = main_options_from_params(params)
  /\ last = [option |-> "main", result |-> "none", line |-> <<>>, pw |-> 0]
  /\ scenario = NoScenario
  /\ event = NoEvent
  /\ reads = 1
  /\ writes = 0

SpecAny == InitAny /\ [][Next]_vars

(* ------------------------------- claims --------------------------------- *)
Offers(list, option) == \E i \in 1..Len(list) : list[i] = option

\* C1: in every reachable state a present secret_key implies a present
\* encrypted_master_key, and every step that takes encrypted_master_key from
\* present to absent leaves secret_key absent.
C1_SecretKeyImpliesMasterKey ==
  /\ [](is_some(params.secret_key) => is_some(params.data.encrypted_master_key))
  /\ [][(is_some(params.data.encrypted_master_key)
           /\ ~is_some(params'.data.encrypted_master_key))
          => ~is_some(params'.secret_key)]_vars

\* C1 witness: a run that started without a document (so the master key was
\* made, and left unlocked, by NewMaster) has just destroyed it.
C1_Witness ==
  /\ runs > 0 /\ contents = None
  /\ last.option = "DestroyMaster" /\ last.line = LineYES
  /\ ~is_some(params.data.encrypted_master_key)
  /\ ~is_some(params.secret_key)

\* C2: for every Session (all presence/absence combinations), the option list
\* rendered at the menu is non-empty, holds both SaveAndExit and
\* ExitWithoutSaving, never holds DecryptMaster when secret_key is present and
\* never holds NewMaster when encrypted_master_key is present.
C2_AvailableActionsGated ==
  pc = "menu" =>
    /\ options = main_options_from_params(params)
    /\ Len(options) >= 2
    /\ Offers(options, "SaveAndExit")
    /\ Offers(options, "ExitWithoutSaving")
    /\ (is_some(params.secret_key) => ~Offers(options, "DecryptMaster"))
    /\ (is_some(params.data.encrypted_master_key) => ~Offers(options, "NewMaster"))

\* C2 witness: a list derived after a handler ran, for an unlocked identity
\* with every artifact present.
C2_Witness ==
  /\ pc = "menu" /\ last.option \notin {"none", "main"}
  /\ is_some(params.secret_key)
  /\ is_some(params.data.encrypted_master_key)
  /\ is_some(params.data.bootstrap)
  /\ is_some(params.data.profile)
  /\ is_some(params.data.key_schedule)

\* A step of the menu loop in which execute ran `option`: the event read
\* selects an entry of the printed list
Executes(option) ==
  /\ pc = "menu"
  /\ event'.kind = "digit"
  /\ event'.digit < Len(options)
  /\ last'.option = option

\* C3: DestroyMaster clears encrypted_master_key and secret_key only when the
\* typed line is exactly "YES"; any other line leaves both unchanged.
C3_DestroyOnlyOnExactYES ==
  [][(Executes("DestroyMaster") /\ last'.result = "Ok(false)") =>
       IF last'.line = LineYES
         THEN /\ ~is_some(params'.data.encrypted_master_key)
              /\ ~is_some(params'.secret_key)
         ELSE /\ params'.data.encrypted_master_key = params.data.encrypted_master_key
              /\ params'.secret_key = params.secret_key]_vars

\* A DecryptMaster step in which a password was typed that is not the one
\* the present encrypted_master_key was made with
WrongPassword ==
  /\ Executes("DecryptMaster")
  /\ is_some(params.data.encrypted_master_key)
  /\ last'.pw # 0
  /\ last'.pw # unwrap(params.data.encrypted_master_key).pw

\* C4: DecryptMaster with an incorrect password leaves secret_key absent and
\* Data (encrypted_master_key included) as it was before the attempt.
C4_WrongPasswordChangesNothing ==
  [][WrongPassword =>
       /\ ~is_some(params'.secret_key)
       /\ params'.data = params.data
       /\ disk' = disk]_vars

\* C4 witness: a decrypt attempt has just failed on the password.
C4_Witness ==
  /\ last.option = "DecryptMaster" /\ last.result = "Err(decrypt)"
  /\ last.pw # 0
  /\ is_some(params.data.encrypted_master_key)
  /\ last.pw # unwrap(params.data.encrypted_master_key).pw
  /\ ~is_some(params.secret_key)

\* C5: a wrong password at DecryptMaster is recoverable: the loop goes on, the
\* option list is derived again and still offers DecryptMaster.
C5_WrongPasswordRecoverable ==
  [][WrongPassword =>
       /\ pc' = "menu"
       /\ options' = main_options_from_params(params')
       /\ Offers(options', "DecryptMaster")]_vars

\* C6: the document on disk is changed by no step other than SaveAndExit:
\* within a run in which SaveAndExit has not run, the file equals what main
\* read at load, whatever the handlers did to the Session; so it does after
\* ExitWithoutSaving.
C6_DiskChangedOnlyBySave ==
  /\ []((runs > 0 /\ last.option # "SaveAndExit") => disk = contents)
  /\ [][disk' # disk => Executes("SaveAndExit")]_vars

\* C6 witness: a run ended by ExitWithoutSaving with a Data that differs from
\* the loaded one, the file being as loaded.
C6_Witness ==
  /\ pc = "exited" /\ last.option = "ExitWithoutSaving"
  /\ params.data # main_load(contents).params.data
  /\ disk = contents

CreatesArtifact ==
  /\ pc = "menu"
  /\ \/ ~is_some(params.data.bootstrap) /\ is_some(params'.data.bootstrap)
     \/ ~is_some(params.data.profile) /\ is_some(params'.data.profile)
     \/ ~is_some(params.data.key_schedule) /\ is_some(params'.data.key_schedule)

\* C8: in the menu loop, a step that takes bootstrap, profile or key_schedule
\* from absent to present starts in a state with secret_key present.
C8_ArtifactsNeedUnlock ==
  [][CreatesArtifact => is_some(params.secret_key)]_vars

\* C8 witness: NewBootstrap has just made the bootstrap, the identity unlocked.
C8_Witness ==
  /\ pc = "menu" /\ last.option = "NewBootstrap"
  /\ is_some(params.data.bootstrap)
  /\ is_some(params.secret_key)

\* The field a New* option creates, and the Edit* option that replaces it
FieldOf(option, data) ==
  IF option = "NewBootstrap" THEN data.bootstrap
  ELSE IF option = "NewProfile" THEN data.profile
  ELSE data.key_schedule

EditOf(option) ==
  IF option = "NewBootstrap" THEN "EditBootstrap"
  ELSE IF option = "NewProfile" THEN "EditProfile"
  ELSE "EditKeySchedule"

\* C9: executing NewBootstrap, NewProfile or NewKeySchedule (identity unlocked,
\* field absent) makes the field present, and the next option list offers the
\* matching Edit option in place of the New option.
C9_CreateMakesFieldPresent ==
  [][\A option \in {"NewBootstrap", "NewProfile", "NewKeySchedule"} :
       (/\ Executes(option)
        /\ is_some(params.secret_key)
        /\ ~is_some(FieldOf(option, params.data)))
       => /\ is_some(FieldOf(option, params'.data))
          /\ Offers(options', EditOf(option))
          /\ ~Offers(options', option)]_vars

\* C10: the scenario over two runs. With no document the list is [NewMaster,
\* SaveAndExit, ExitWithoutSaving]; after NewMaster with password p it is
\* [NewBootstrap, NewProfile, NewKeySchedule, DestroyMaster, SaveAndExit,
\* ExitWithoutSaving]; after SaveAndExit the next run loads a document with
\* the master key, starts locked with DecryptMaster and no artifact option
\* offered; DecryptMaster with p then succeeds and secret_key is present.
C10_Scenario ==
  /\ scenario.stage = 1 =>
       /\ pc = "menu"
       /\ options = <<"NewMaster", "SaveAndExit", "ExitWithoutSaving">>
  /\ scenario.stage = 2 =>
       /\ pc = "menu"
       /\ options = <<"NewBootstrap", "NewProfile", "NewKeySchedule",
                      "DestroyMaster", "SaveAndExit", "ExitWithoutSaving">>
  /\ scenario.stage = 3 =>
       /\ pc = "exited"
       /\ is_some(disk)
  /\ scenario.stage = 4 =>
       /\ pc = "menu"
       /\ is_some(params.data.encrypted_master_key)
       /\ ~is_some(params.secret_key)
       /\ Offers(options, "DecryptMaster")
       /\ \A o \in PrintOnly \cup {"NewBootstrap"} : ~Offers(options, o)
  /\ scenario.stage = 5 =>
       /\ pc = "menu"
       /\ last.option = "DecryptMaster" /\ last.result = "Ok(false)"
       /\ is_some(params.secret_key)

\* C10 witness: the scenario ran to its end, the second run unlocked with p.
C10_Witness ==
  /\ scenario.stage = 5
  /\ runs = 2
  /\ is_some(params.secret_key)

\* The list the derivation rule prescribes for a Session
NewOrEdit(field, new, edit) == IF is_some(field) THEN edit ELSE new

PrescribedOptions(session) ==
  LET identity ==
        IF ~is_some(session.data.encrypted_master_key)
          THEN <<"NewMaster">>
        ELSE IF ~is_some(session.secret_key)
          THEN <<"DecryptMaster", "DestroyMaster">>
        ELSE <<NewOrEdit(session.data.bootstrap, "NewBootstrap", "EditBootstrap"),
               NewOrEdit(session.data.profile, "NewProfile", "EditProfile"),
               NewOrEdit(session.data.key_schedule,
                         "NewKeySchedule", "EditKeySchedule"),
               "DestroyMaster">>
  IN identity \o <<"SaveAndExit", "ExitWithoutSaving">>

NoDuplicates(list) ==
  \A i, j \in 1..Len(list) : list[i] = list[j] => i = j

\* C11: for every Session the rendered list is exactly the prescribed one, in
\* order and without duplicates, SaveAndExit and ExitWithoutSaving being its
\* last two entries; DestroyMaster is offered iff encrypted_master_key is
\* present.
C11_ExactOptionList ==
  pc = "menu" =>
    /\ options = PrescribedOptions(params)
    /\ NoDuplicates(options)
    /\ Len(options) >= 2
    /\ options[Len(options) - 1] = "SaveAndExit"
    /\ options[Len(options)] = "ExitWithoutSaving"
    /\ Offers(options, "DestroyMaster") <=> is_some(params.data.encrypted_master_key)

\* C11 witness: the list of an unlocked identity with a bootstrap and no
\* profile, derived after NewBootstrap ran.
C11_Witness ==
  /\ pc = "menu" /\ last.option = "NewBootstrap"
  /\ options = <<"EditBootstrap", "NewProfile", "NewKeySchedule",
                 "DestroyMaster", "SaveAndExit", "ExitWithoutSaving">>

\* A step of run_menu_once in which the event read selects an entry of the
\* printed list, so that execute runs
Dispatches ==
  /\ pc = "menu"
  /\ event'.kind = "digit"
  /\ event'.digit < Len(options)

\* C12: every option the menu loop dispatches is the entry, at the selected
\* index, of the list derived from the Session as it is at dispatch; so
\* DecryptMaster never runs with encrypted_master_key absent (its panic arm is
\* never taken) and no submenu option is ever dispatched.
C12_DispatchedFromCurrentList ==
  /\ [][Dispatches =>
          /\ options = main_options_from_params(params)
          /\ last'.option = PrescribedOptions(params)[event'.digit + 1]
          /\ (last'.option = "DecryptMaster"
                => is_some(params.data.encrypted_master_key))]_vars
  /\ [](~(last.option = "DecryptMaster" /\ last.result = "panic"))
  /\ [](last.option \notin SubmenuOptions)

\* C12 witness: a confirmed DestroyMaster on a loaded master key has just
\* changed what may be dispatched: the list no longer holds DecryptMaster.
C12_Witness ==
  /\ pc = "menu"
  /\ last.option = "DestroyMaster" /\ last.line = LineYES
  /\ is_some(contents)
  /\ is_some(main_load(contents).params.data.encrypted_master_key)
  /\ ~Offers(options, "DecryptMaster")
  /\ Offers(options, "NewMaster")

\* A step of run_menu_once in which the event read is no key press, no digit
\* key, or a digit that is not less than the length of the printed list
ReadsUnofferedEvent ==
  /\ pc = "menu"
  /\ event'.kind # "none"
  /\ ~(event'.kind = "digit" /\ event'.digit < Len(options))

\* C13: an event that resolves to no entry of the offered list runs no handler
\* and leaves the Session and the file unchanged; the loop keeps waiting with
\* the same list.
C13_UnofferedEventIgnored ==
  [][ReadsUnofferedEvent =>
       /\ params' = params
       /\ disk' = disk
       /\ last' = last
       /\ writes' = writes
       /\ options' = options
       /\ pc' = "menu"]_vars

\* C13 witness: with an unlocked identity, the digit just past the end of the
\* list was pressed.
C13_Witness ==
  /\ pc = "menu"
  /\ event = DigitKey(Len(options))
  /\ is_some(params.secret_key)
  /\ last.option = "NewMaster"

\* C14: when SaveAndExit succeeds, the file holds the serialization of
\* Session.data as it is then, the whole document being replaced (a destroyed
\* master key is absent from it), and the handler returns true: the loop ends
\* and the run executes nothing more.
C14_SaveWritesWholeDocument ==
  /\ [][(Executes("SaveAndExit") /\ last'.result = "Ok(true)") =>
          /\ disk' = Some(to_string(params.data))
          /\ (~is_some(params.data.encrypted_master_key)
                => unwrap(disk').encrypted_master_key = JsonNull)
          /\ params' = params
          /\ pc' = "exited"]_vars
  /\ [][pc = "exited" => (runs' = runs + 1 /\ last'.option = "main")]_vars

\* C14 witness: a run that loaded a master key destroyed it and saved; the
\* file no longer holds one.
C14_Witness ==
  /\ pc = "exited"
  /\ last.option = "SaveAndExit" /\ last.result = "Ok(true)"
  /\ is_some(contents)
  /\ is_some(main_load(contents).params.data.encrypted_master_key)
  /\ ~is_some(params.data.encrypted_master_key)
  /\ unwrap(disk).encrypted_master_key = JsonNull

StayingOptions ==
  {"NewMaster", "DecryptMaster", "DestroyMaster", "NewBootstrap"} \cup PrintOnly

\* C16: the loop stops cleanly only after SaveAndExit or ExitWithoutSaving.
\* ExitWithoutSaving always returns true; every other handler that completes
\* without error returns false, and the list is then derived again from the
\* updated Session before the next selection is read.
C16_OnlyExitsTerminate ==
  /\ [](pc = "exited" => last.option \in {"SaveAndExit", "ExitWithoutSaving"})
  /\ [][Executes("ExitWithoutSaving") =>
          (last'.result = "Ok(true)" /\ pc' = "exited")]_vars
  /\ [][\A option \in StayingOptions :
          (Executes(option) /\ last'.result \in {"Ok(false)", "Ok(true)"}) =>
            /\ last'.result = "Ok(false)"
            /\ pc' = "menu"
            /\ options' = main_options_from_params(params')]_vars

\* C16 witness: an unconfirmed DestroyMaster returned false and the menu is
\* up again.
C16_Witness ==
  /\ pc = "menu"
  /\ last.option = "DestroyMaster" /\ last.result = "Ok(false)"
  /\ last.line = <<"N", "O">>
  /\ options = main_options_from_params(params)

\* C17: when the password prompt of NewMaster fails with an I/O error, the run
\* ends with a fatal error, encrypted_master_key and secret_key are both
\* still absent, and nothing was written to the file.
C17_PromptFailureLeavesNoHalfKey ==
  [][(Executes("NewMaster") /\ last'.pw = 0) =>
       /\ last'.result = "Err(io)"
       /\ pc' = "failed"
       /\ ~is_some(params'.data.encrypted_master_key)
       /\ ~is_some(params'.secret_key)
       /\ params' = params
       /\ disk' = disk
       /\ disk' = contents
       /\ writes' = 0]_vars

\* C17 witness: the run has ended on the failed prompt of NewMaster.
C17_Witness ==
  /\ pc = "failed"
  /\ last.option = "NewMaster" /\ last.result = "Err(io)" /\ last.pw = 0
  /\ ~is_some(params.data.encrypted_master_key)
  /\ ~is_some(params.secret_key)
  /\ disk = contents

\* bootstrap, profile and key_schedule of a Data
Artifacts(data) == <<data.bootstrap, data.profile, data.key_schedule>>

\* C18: DestroyMaster, confirmed or not, never changes bootstrap, profile or
\* key_schedule. A Data with artifacts and no master key is saved as such by
\* SaveAndExit, and after a later NewMaster the artifacts that are present
\* are offered as Edit options.
C18_DestroyKeepsArtifacts ==
  /\ [][Executes("DestroyMaster") =>
          Artifacts(params'.data) = Artifacts(params.data)]_vars
  /\ [][(/\ Executes("SaveAndExit") /\ last'.result = "Ok(true)"
         /\ ~is_some(params.data.encrypted_master_key)) =>
          LET saved == from_slice(unwrap(disk'))
          IN /\ saved.ok
             /\ ~is_some(saved.data.encrypted_master_key)
             /\ Artifacts(saved.data) = Artifacts(params.data)]_vars
  /\ [][(Executes("NewMaster") /\ last'.result = "Ok(false)") =>
          /\ Artifacts(params'.data) = Artifacts(params.data)
          /\ (is_some(params.data.bootstrap) => Offers(options', "EditBootstrap"))
          /\ (is_some(params.data.profile) => Offers(options', "EditProfile"))
          /\ (is_some(params.data.key_schedule)
                => Offers(options', "EditKeySchedule"))]_vars

\* C18 witness: a run that started without a document has a bootstrap that
\* outlived its master key (made by NewBootstrap, then DestroyMaster), and a
\* second NewMaster has just put EditBootstrap back on the list.
C18_Witness ==
  /\ runs > 0 /\ contents = None
  /\ pc = "menu"
  /\ last.option = "NewMaster" /\ last.result = "Ok(false)"
  /\ is_some(params.data.bootstrap)
  /\ Offers(options, "EditBootstrap")

\* The digit key that selects `option` from `list`, if there is one
SelectableByDigit(list, option) ==
  \E d \in 0..9 : d < Len(list) /\ list[d + 1] = option

\* C19: in every Session the offered list has at least 3 and at most 6
\* entries, so every entry has an index in 0..9 and a digit key that selects
\* it; both exits can be selected, and one key press can end the run.
C19_ListFitsDigits ==
  pc = "menu" =>
    /\ Len(options) >= 3
    /\ Len(options) <= 6
    /\ \A i \in 1..Len(options) :
         /\ i - 1 \in 0..9
         /\ SelectableByDigit(options, options[i])
    /\ SelectableByDigit(options, "SaveAndExit")
    /\ SelectableByDigit(options, "ExitWithoutSaving")
    /\ ENABLED ExitWithoutSaving

\* C19 witness: the longest list, six entries, with ExitWithoutSaving at
\* index 5, rendered after a handler ran.
C19_Witness ==
  /\ pc = "menu" /\ last.option \notin {"none", "main"}
  /\ Len(options) = 6
  /\ options[6] = "ExitWithoutSaving"

====
